---- MODULE Spec2Model ----
(***************************************************************************)
(* hash_index<> (src/hash_index.hpp), the default instantiation: an        *)
(* unsigned index_type whose all-ones bit pattern is null_index.           *)
(*                                                                         *)
(* Buffers live in a heap of addresses, so that copies, moves and swaps    *)
(* are about pointer ownership as in the code.  Every operation of the     *)
(* class is an operator on a "world" [r, h, al, st]: the object's fields,  *)
(* the heap, the set of allocated addresses and the run status ("ok", or   *)
(* "ub" after an out-of-bounds access, or "hang" for a loop that never     *)
(* ends).                                                                  *)
(***************************************************************************)
EXTENDS Integers, Sequences, FiniteSets, TLC

\* ------------------------------------------------------------------ bounds
MaxPos == 2
IndexBits == 16
SizeBits == 20
NumAddr == 6
MaxAlloc == 4
DistMax == 12

\* ------------------------------------------------------- program constants
default_initial_size == 1024
default_granularity == 1024
sizeof_index_type == 4

null_index == 2^IndexBits - 1
AllOnes == 2^SizeBits - 1

NullPtr == -1
m_invalid_index_dummy == 0

ObjIds == {1, 2}
Addr == 1..NumAddr
Positions == 0..MaxPos
\* hash codes: 0, 4 and 8 collide for every bucket count used here
Keys == {0, 1, 4, 8}
Granularities == {1, 2}
BucketSizes == {1, 2, 4}
ChainSizes == {0, MaxPos + 1}
NoBucket == -1

VARIABLES obj, heap, allocated, status, hist, op

vars == <<obj, heap, allocated, status, hist, op>>

\* ----------------------------------------------------------- integer types
RECURSIVE BitAnd(_, _)
BitAnd(x, y) ==
    IF x = 0 \/ y = 0 THEN 0
    ELSE (x % 2) * (y % 2) + 2 * BitAnd(x \div 2, y \div 2)

\* index_type arithmetic is modulo 2^IndexBits
WrapIndex(v) == v % (2^IndexBits)

\* size_type arithmetic
WrapSize(v) == v % (2^SizeBits)

\* std::allocator<index_type>::allocate(n) throws when n elements cannot be
\* addressed
TooLarge(n) == n * sizeof_index_type > AllOnes

is_power_of_two(num) == num > 0 /\ BitAnd(num, num - 1) = 0

SetMax(S) == CHOOSE m \in S : \A x \in S : x <= m

\* ------------------------------------------------------------------ memory
FreeBuf == [i \in {} |-> null_index]

FilledBuf(n) == [i \in 0..(n - 1) |-> null_index]

\* the static one-element array both pointers refer to while unallocated
DummyArray == [i \in {0} |-> null_index]

Mem(h, ptr) == IF ptr = m_invalid_index_dummy THEN DummyArray ELSE h[ptr]

\* Allocator::allocate: an address not in use
NewAddr(al) == CHOOSE a \in Addr \ al : \A b \in Addr \ al : a <= b

World(r, h, al, st) == [r |-> r, h |-> h, al |-> al, st |-> st]

\* the storage of an object before its constructor has run
RawObj ==
    [alive |-> FALSE,
     m_hash_buckets |-> NullPtr, m_index_chain |-> NullPtr,
     m_hash_buckets_size |-> 0, m_index_chain_size |-> 0,
     m_hash_mask |-> 0, m_lookup_mask |-> 0, m_granularity |-> 0]

is_allocated(r) ==
    r.m_hash_buckets # NullPtr /\ r.m_hash_buckets # m_invalid_index_dummy

internal_init(r, initial_hash_buckets_size, initial_index_chain_size) ==
    [r EXCEPT !.alive = TRUE,
              !.m_hash_buckets = m_invalid_index_dummy,
              !.m_index_chain = m_invalid_index_dummy,
              !.m_hash_buckets_size = initial_hash_buckets_size,
              !.m_index_chain_size = initial_index_chain_size,
              !.m_hash_mask = initial_hash_buckets_size - 1,
              !.m_lookup_mask = 0,
              !.m_granularity = default_granularity]

\* clear_and_free that leaves the lookup mask as it is
clear_and_free_keeps_lookup_mask(w) ==
    LET b == w.r.m_hash_buckets
        c == w.r.m_index_chain
        fb == IF b # m_invalid_index_dummy THEN {b} ELSE {}
        fc == IF c # m_invalid_index_dummy THEN {c} ELSE {}
    IN  [w EXCEPT !.r.m_hash_buckets = m_invalid_index_dummy,
                  !.r.m_index_chain = m_invalid_index_dummy,
                  !.h = [a \in Addr |-> IF a \in fb \cup fc THEN FreeBuf ELSE w.h[a]],
                  !.al = w.al \ (fb \cup fc)]

clear_and_free(w) ==
    LET b == w.r.m_hash_buckets
        c == w.r.m_index_chain
        fb == IF b # m_invalid_index_dummy THEN {b} ELSE {}
        fc == IF c # m_invalid_index_dummy THEN {c} ELSE {}
    IN  [w EXCEPT !.r.m_hash_buckets = m_invalid_index_dummy,
                  !.r.m_index_chain = m_invalid_index_dummy,
                  !.r.m_lookup_mask = 0,
                  !.h = [a \in Addr |-> IF a \in fb \cup fc THEN FreeBuf ELSE w.h[a]],
                  !.al = w.al \ (fb \cup fc)]

\* internal_allocate that leaves the lookup mask as it is
internal_allocate_keeps_lookup_mask(w, new_hash_buckets_size, new_index_chain_size) ==
    LET w1 == IF is_allocated(w.r) THEN clear_and_free(w) ELSE w
        a1 == NewAddr(w1.al)
        a2 == NewAddr(w1.al \cup {a1})
    IN  [w1 EXCEPT !.r.m_hash_buckets = a1,
                   !.r.m_index_chain = a2,
                   !.r.m_hash_buckets_size = new_hash_buckets_size,
                   !.r.m_index_chain_size = new_index_chain_size,
                   !.r.m_hash_mask = new_hash_buckets_size - 1,
                   !.h = [w1.h EXCEPT ![a1] = FilledBuf(new_hash_buckets_size),
                                      ![a2] = FilledBuf(new_index_chain_size)],
                   !.al = w1.al \cup {a1, a2}]

internal_allocate(w, new_hash_buckets_size, new_index_chain_size) ==
    LET w1 == IF is_allocated(w.r) THEN clear_and_free(w) ELSE w
        a1 == NewAddr(w1.al)
        a2 == NewAddr(w1.al \cup {a1})
    IN  [w1 EXCEPT !.r.m_hash_buckets = a1,
                   !.r.m_index_chain = a2,
                   !.r.m_hash_buckets_size = new_hash_buckets_size,
                   !.r.m_index_chain_size = new_index_chain_size,
                   !.r.m_hash_mask = new_hash_buckets_size - 1,
                   !.r.m_lookup_mask = AllOnes,
                   !.h = [w1.h EXCEPT ![a1] = FilledBuf(new_hash_buckets_size),
                                      ![a2] = FilledBuf(new_index_chain_size)],
                   !.al = w1.al \cup {a1, a2}]

\* RoundedSize that adds a whole granularity to every request
RoundedSize_always_adds(new_index_chain_size, granularity) ==
    WrapSize(new_index_chain_size + granularity - (new_index_chain_size % granularity))

\* the capacity resize_index_chain rounds a request up to
RoundedSize(new_index_chain_size, granularity) ==
    LET mod == new_index_chain_size % granularity
    IN  IF mod = 0 THEN new_index_chain_size
        ELSE WrapSize(new_index_chain_size + granularity - mod)

\* resize_index_chain without the copy of the old contents
resize_index_chain_drops_old(w, new_index_chain_size) ==
    IF new_index_chain_size <= w.r.m_index_chain_size THEN w
    ELSE LET new_size == RoundedSize(new_index_chain_size, w.r.m_granularity)
         IN  IF w.r.m_index_chain = m_invalid_index_dummy
             THEN [w EXCEPT !.r.m_index_chain_size = new_size]
             ELSE IF TooLarge(new_size) THEN [w EXCEPT !.st = "bad_alloc"]
             ELSE IF new_size < w.r.m_index_chain_size THEN [w EXCEPT !.st = "ub"]
             ELSE LET a == NewAddr(w.al)
                  IN  [w EXCEPT !.r.m_index_chain = a,
                                !.r.m_index_chain_size = new_size,
                                !.h = [w.h EXCEPT ![a] = FilledBuf(new_size),
                                                  ![w.r.m_index_chain] = FreeBuf],
                                !.al = (w.al \cup {a}) \ {w.r.m_index_chain}]

resize_index_chain(w, new_index_chain_size) ==
    IF new_index_chain_size <= w.r.m_index_chain_size THEN w
    ELSE LET new_size == RoundedSize(new_index_chain_size, w.r.m_granularity)
         IN  IF w.r.m_index_chain = m_invalid_index_dummy
             THEN [w EXCEPT !.r.m_index_chain_size = new_size]
             ELSE IF TooLarge(new_size) THEN [w EXCEPT !.st = "bad_alloc"]
             ELSE IF new_size < w.r.m_index_chain_size THEN [w EXCEPT !.st = "ub"]
             ELSE LET old == w.h[w.r.m_index_chain]
                      old_size == w.r.m_index_chain_size
                      a == NewAddr(w.al)
                      new == [i \in 0..(new_size - 1) |->
                                 IF i < old_size THEN old[i] ELSE null_index]
                  IN  [w EXCEPT !.r.m_index_chain = a,
                                !.r.m_index_chain_size = new_size,
                                !.h = [w.h EXCEPT ![a] = new,
                                                  ![w.r.m_index_chain] = FreeBuf],
                                !.al = (w.al \cup {a}) \ {w.r.m_index_chain}]

\* ------------------------------------------------------------------ lookup
\* first that always reads the first bucket
first_reads_bucket_zero(h, r, key) ==
    Mem(h, r.m_hash_buckets)[0]

\* hash_index::first
first(h, r, key) ==
    Mem(h, r.m_hash_buckets)[BitAnd(BitAnd(key, r.m_hash_mask), r.m_lookup_mask)]

next(h, r, index) ==
    Mem(h, r.m_index_chain)[BitAnd(index, r.m_lookup_mask)]

\* the positions a traversal from `start` visits, and how it ends: at the
\* sentinel ("null"), at a position outside the chain ("oob"), or never
\* ("loop", a position comes round again)
RECURSIVE Walk(_, _, _, _, _)
Walk(h, r, i, seen, acc) ==
    IF i = null_index THEN [seq |-> acc, end |-> "null"]
    ELSE IF i >= r.m_index_chain_size THEN [seq |-> acc, end |-> "oob"]
    ELSE IF i \in seen THEN [seq |-> acc, end |-> "loop"]
    ELSE Walk(h, r, next(h, r, i), seen \cup {i}, Append(acc, i))

Traverse(h, r, key) == Walk(h, r, first(h, r, key), {}, <<>>)

\* find, lines 284-296.  `matching`: the positions i for which
\* pred(needle, collection[i]) holds.  The result: how the loop ends ("found",
\* "null": the sentinel was reached, "oob": a position outside the chain was
\* read, "loop": it never ends), the value returned and the positions the
\* predicate was evaluated on, in order.
RECURSIVE find_walk(_, _, _, _, _, _)
find_walk(h, r, i, matching, seen, probed) ==
    IF i = null_index THEN [end |-> "null", value |-> null_index, probed |-> probed]
    ELSE IF i >= r.m_index_chain_size
         THEN [end |-> "oob", value |-> null_index, probed |-> Append(probed, i)]
    ELSE IF i \in matching
         THEN [end |-> "found", value |-> i, probed |-> Append(probed, i)]
    ELSE IF i \in seen THEN [end |-> "loop", value |-> null_index, probed |-> probed]
    ELSE find_walk(h, r, next(h, r, i), matching, seen \cup {i}, Append(probed, i))

find(h, r, key, matching) == find_walk(h, r, first(h, r, key), matching, {}, <<>>)

\* ------------------------------------------------------- insertion/removal
\* insert_reserve whose first allocation rounds the chain capacity up to the
\* granularity
insert_reserve_rounds(w, index) ==
    IF ~is_allocated(w.r)
    THEN internal_allocate(w, w.r.m_hash_buckets_size,
                           RoundedSize(IF index >= w.r.m_index_chain_size
                                       THEN WrapIndex(index + 1)
                                       ELSE w.r.m_index_chain_size,
                                       w.r.m_granularity))
    ELSE IF index >= w.r.m_index_chain_size
         THEN resize_index_chain(w, WrapIndex(index + 1))
         ELSE w

\* insert, lines 310-319: allocate on first use, or grow the chain
insert_reserve(w, index) ==
    IF ~is_allocated(w.r)
    THEN internal_allocate(w, w.r.m_hash_buckets_size,
                           IF index >= w.r.m_index_chain_size
                           THEN WrapIndex(index + 1)
                           ELSE w.r.m_index_chain_size)
    ELSE IF index >= w.r.m_index_chain_size
         THEN resize_index_chain(w, WrapIndex(index + 1))
         ELSE w

\* insert_link that forgets the previous head
insert_link_unlinked(w, key, index) ==
    LET k == BitAnd(key, w.r.m_hash_mask)
        B == w.h[w.r.m_hash_buckets]
        C == w.h[w.r.m_index_chain]
    IN  [w EXCEPT !.h = [w.h EXCEPT ![w.r.m_index_chain] = [C EXCEPT ![index] = null_index],
                                    ![w.r.m_hash_buckets] = [B EXCEPT ![k] = index]]]

\* insert, lines 321-323: link the position in front of its bucket's chain
insert_link(w, key, index) ==
    LET k == BitAnd(key, w.r.m_hash_mask)
        B == w.h[w.r.m_hash_buckets]
        C == w.h[w.r.m_index_chain]
    IN  [w EXCEPT !.h = [w.h EXCEPT ![w.r.m_index_chain] = [C EXCEPT ![index] = B[k]],
                                    ![w.r.m_hash_buckets] = [B EXCEPT ![k] = index]]]

\* insert that first takes the position off every bucket head that holds it
insert_unlinks_heads(w, key, index) ==
    LET w1 == insert_reserve(w, index)
        B == w1.h[w1.r.m_hash_buckets]
        C == w1.h[w1.r.m_index_chain]
        w2 == [w1 EXCEPT !.h = [w1.h EXCEPT ![w1.r.m_hash_buckets] =
                                   [k \in DOMAIN B |-> IF B[k] = index THEN C[index] ELSE B[k]]]]
    IN  insert_link(w2, key, index)

insert(w, key, index) == insert_link(insert_reserve(w, index), key, index)

\* erase_walk that compares the visited position, not its chain slot
RECURSIVE erase_walk_self(_, _, _, _, _)
erase_walk_self(C, size, i, index, seen) ==
    IF i = null_index THEN [end |-> "null", at |-> i]
    ELSE IF i >= size THEN [end |-> "oob", at |-> i]
    ELSE IF i = index THEN [end |-> "found", at |-> i]
    ELSE IF i \in seen THEN [end |-> "loop", at |-> i]
    ELSE erase_walk_self(C, size, C[i], index, seen \cup {i})

\* erase, lines 343-350: find the chain slot that refers to `index`
RECURSIVE erase_walk(_, _, _, _, _)
erase_walk(C, size, i, index, seen) ==
    IF i = null_index THEN [end |-> "null", at |-> i]
    ELSE IF i >= size THEN [end |-> "oob", at |-> i]
    ELSE IF C[i] = index THEN [end |-> "found", at |-> i]
    ELSE IF i \in seen THEN [end |-> "loop", at |-> i]
    ELSE erase_walk(C, size, C[i], index, seen \cup {i})

\* erase that does not reset the chain slot of the erased position
erase_keeps_slot(w, key, index) ==
    IF ~is_allocated(w.r) THEN w
    ELSE
    LET k == BitAnd(key, w.r.m_hash_mask)
        B == w.h[w.r.m_hash_buckets]
        C == w.h[w.r.m_index_chain]
        found == erase_walk(C, w.r.m_index_chain_size, B[k], index, {})
    IN  IF B[k] = index
        THEN [w EXCEPT !.h = [w.h EXCEPT ![w.r.m_hash_buckets] = [B EXCEPT ![k] = C[index]]]]
        ELSE CASE found.end = "found" ->
                    [w EXCEPT !.h = [w.h EXCEPT ![w.r.m_index_chain] =
                                        [C EXCEPT ![found.at] = C[index]]]]
               [] found.end = "null" -> w
               [] found.end = "oob" -> [w EXCEPT !.st = "ub"]
               [] found.end = "loop" -> [w EXCEPT !.st = "hang"]

\* erase that leaves the bucket head in place when it is the erased position
erase_keeps_head(w, key, index) ==
    IF ~is_allocated(w.r) THEN w
    ELSE
    LET k == BitAnd(key, w.r.m_hash_mask)
        B == w.h[w.r.m_hash_buckets]
        C == w.h[w.r.m_index_chain]
        found == erase_walk(C, w.r.m_index_chain_size, B[k], index, {})
    IN  IF B[k] = index
        THEN [w EXCEPT !.h = [w.h EXCEPT ![w.r.m_index_chain] = [C EXCEPT ![index] = null_index]]]
        ELSE CASE found.end = "found" ->
                    [w EXCEPT !.h = [w.h EXCEPT ![w.r.m_index_chain] =
                                        [[C EXCEPT ![found.at] = C[index]]
                                            EXCEPT ![index] = null_index]]]
               [] found.end = "null" ->
                    [w EXCEPT !.h = [w.h EXCEPT ![w.r.m_index_chain] =
                                        [C EXCEPT ![index] = null_index]]]
               [] found.end = "oob" -> [w EXCEPT !.st = "ub"]
               [] found.end = "loop" -> [w EXCEPT !.st = "hang"]

erase(w, key, index) ==
    IF ~is_allocated(w.r) THEN w
    ELSE
    LET k == BitAnd(key, w.r.m_hash_mask)
        B == w.h[w.r.m_hash_buckets]
        C == w.h[w.r.m_index_chain]
        found == erase_walk(C, w.r.m_index_chain_size, B[k], index, {})
    IN  IF B[k] = index
        THEN [w EXCEPT !.h = [w.h EXCEPT ![w.r.m_hash_buckets] = [B EXCEPT ![k] = C[index]],
                                         ![w.r.m_index_chain] = [C EXCEPT ![index] = null_index]]]
        ELSE CASE found.end = "found" ->
                    [w EXCEPT !.h = [w.h EXCEPT ![w.r.m_index_chain] =
                                        [[C EXCEPT ![found.at] = C[index]]
                                            EXCEPT ![index] = null_index]]]
               [] found.end = "null" ->
                    [w EXCEPT !.h = [w.h EXCEPT ![w.r.m_index_chain] =
                                        [C EXCEPT ![index] = null_index]]]
               [] found.end = "oob" -> [w EXCEPT !.st = "ub"]
               [] found.end = "loop" -> [w EXCEPT !.st = "hang"]

\* the values of a buffer that the index-shift loops treat as >= index
ShiftedValues(buf, index) == {buf[i] : i \in {j \in DOMAIN buf : buf[j] >= index}}

\* insert_at_index, lines 367-389: increment every stored value >= index
increment_from(buf, index) ==
    [i \in DOMAIN buf |-> IF buf[i] >= index THEN WrapIndex(buf[i] + 1) ELSE buf[i]]

insert_at_index(w, key, index) ==
    IF ~is_allocated(w.r) THEN w
    ELSE
    LET B == increment_from(w.h[w.r.m_hash_buckets], index)
        C == increment_from(w.h[w.r.m_index_chain], index)
        max == SetMax({index} \cup {B[i] : i \in {j \in DOMAIN B : w.h[w.r.m_hash_buckets][j] >= index}}
                              \cup {C[i] : i \in {j \in DOMAIN C : w.h[w.r.m_index_chain][j] >= index}})
        w1 == [w EXCEPT !.h = [w.h EXCEPT ![w.r.m_hash_buckets] = B,
                                          ![w.r.m_index_chain] = C]]
        w2 == IF max >= w1.r.m_index_chain_size
              THEN resize_index_chain(w1, WrapIndex(max + 1))
              ELSE w1
        C2 == w2.h[w2.r.m_index_chain]
        C3 == [i \in DOMAIN C2 |->
                  IF i = index THEN null_index
                  ELSE IF i > index /\ i <= max THEN C2[i - 1]
                  ELSE C2[i]]
        w3 == [w2 EXCEPT !.h = [w2.h EXCEPT ![w2.r.m_index_chain] = C3]]
    IN  insert(w3, key, index)

\* erase_and_remove_index, lines 419-441: decrement every stored value >= index
decrement_from(buf, index) ==
    [i \in DOMAIN buf |-> IF buf[i] >= index THEN WrapIndex(buf[i] - 1) ELSE buf[i]]

\* `junk` is what the read one past the end of the chain yields when the
\* gap-closing loop runs out of bounds
erase_and_remove_index(w, key, index, junk) ==
    IF ~is_allocated(w.r) THEN w
    ELSE
    LET w1 == erase(w, key, index)
        B0 == w1.h[w1.r.m_hash_buckets]
        C0 == w1.h[w1.r.m_index_chain]
        size == w1.r.m_index_chain_size
        max == SetMax({index} \cup ShiftedValues(B0, index) \cup ShiftedValues(C0, index))
        B == decrement_from(B0, index)
        C == decrement_from(C0, index)
        C2 == [i \in DOMAIN C |->
                  IF i >= index /\ i < max
                  THEN (IF i + 1 < size THEN C[i + 1] ELSE junk)
                  ELSE IF i = max THEN null_index
                  ELSE C[i]]
    IN  IF w1.st # "ok" THEN w1
        ELSE [w1 EXCEPT !.h = [w1.h EXCEPT ![w1.r.m_hash_buckets] = B,
                                           ![w1.r.m_index_chain] = C2],
                        !.st = IF max >= size THEN "ub" ELSE "ok"]

\* -------------------------------------------------------- memory management
\* clear that leaves the first bucket head as it is
clear_skips_bucket_zero(w) ==
    IF w.r.m_hash_buckets # m_invalid_index_dummy
    THEN [w EXCEPT !.h = [w.h EXCEPT ![w.r.m_hash_buckets] =
                              [i \in 0..(w.r.m_hash_buckets_size - 1) |->
                                  IF i = 0 THEN w.h[w.r.m_hash_buckets][0]
                                  ELSE null_index]]]
    ELSE w

clear(w) ==
    IF w.r.m_hash_buckets # m_invalid_index_dummy
    THEN [w EXCEPT !.h = [w.h EXCEPT ![w.r.m_hash_buckets] =
                              FilledBuf(w.r.m_hash_buckets_size)]]
    ELSE w

\* clear_and_resize that does not record the new chain capacity
clear_and_resize_keeps_chain_size(w, new_hash_buckets_size, new_index_chain_size) ==
    [clear_and_free(w) EXCEPT !.r.m_hash_buckets_size = new_hash_buckets_size]

clear_and_resize(w, new_hash_buckets_size, new_index_chain_size) ==
    [clear_and_free(w) EXCEPT !.r.m_hash_buckets_size = new_hash_buckets_size,
                              !.r.m_index_chain_size = new_index_chain_size]

set_granularity(w, new_granularity) ==
    [w EXCEPT !.r.m_granularity = new_granularity]

allocated_bytes(r) ==
    IF ~is_allocated(r) THEN 0
    ELSE r.m_hash_buckets_size * sizeof_index_type
         + r.m_index_chain_size * sizeof_index_type

\* ----------------------------------------------------------------- queries
RECURSIVE SumTo(_, _)
SumTo(f, n) == IF n < 0 THEN 0 ELSE f[n] + SumTo(f, n - 1)

\* compute_distribution_percentage: how the call ends ("ok", or "hang" / "ub"
\* when a chain never reaches the sentinel or leaves the buffer) and the
\* size_type value it returns
compute_distribution_percentage(h, r) ==
    IF ~is_allocated(r) THEN [end |-> "ok", value |-> 100]
    ELSE
    LET last == r.m_hash_buckets_size - 1
        walks == [i \in 0..last |-> Walk(h, r, h[r.m_hash_buckets][i], {}, <<>>)]
        hash_items_count == [i \in 0..last |-> Len(walks[i].seq)]
        total_items == SumTo(hash_items_count, last)
        average == total_items \div r.m_hash_buckets_size
        errs == [i \in 0..last |->
                    LET d == hash_items_count[i] - average
                        e == IF d < 0 THEN -d ELSE d
                    IN  IF e > 1 THEN e - 1 ELSE 0]
        error == SumTo(errs, last)
    IN  IF \E i \in 0..last : walks[i].end = "loop" THEN [end |-> "hang", value |-> 0]
        ELSE IF \E i \in 0..last : walks[i].end = "oob" THEN [end |-> "ub", value |-> 0]
        ELSE IF total_items <= 1 THEN [end |-> "ok", value |-> 100]
        ELSE [end |-> "ok",
              value |-> WrapSize(100 - ((error * 100) \div total_items))]

\* ------------------------------------------------- copy, move, swap, equality
\* hash_index(const hash_index & other): the new object's fields and buffers
copy_construct(w, other) ==
    IF other.m_lookup_mask = 0
    THEN [w EXCEPT !.r = [other EXCEPT !.alive = TRUE,
                                       !.m_hash_buckets = m_invalid_index_dummy,
                                       !.m_index_chain = m_invalid_index_dummy]]
    ELSE LET a1 == NewAddr(w.al)
             a2 == NewAddr(w.al \cup {a1})
         IN  [w EXCEPT !.r = [other EXCEPT !.alive = TRUE,
                                           !.m_hash_buckets = a1,
                                           !.m_index_chain = a2],
                       !.h = [w.h EXCEPT ![a1] = w.h[other.m_hash_buckets],
                                         ![a2] = w.h[other.m_index_chain]],
                       !.al = w.al \cup {a1, a2}]

\* swap that leaves the bucket pointers where they are
swap_keeps_buckets(lhs, rhs) ==
    [lhs |-> [rhs EXCEPT !.m_hash_buckets = lhs.m_hash_buckets],
     rhs |-> [lhs EXCEPT !.m_hash_buckets = rhs.m_hash_buckets]]

\* swap(lhs, rhs): what each side holds afterwards
swap(lhs, rhs) == [lhs |-> rhs, rhs |-> lhs]

\* operator==: the set of results a call can produce ("fault": the element
\* loops read m_invalid_index_dummy[] beyond its single element)
EqOutcomes(h, a, b, same_object) ==
    IF same_object THEN {"true"}
    ELSE IF \/ a.m_hash_buckets_size # b.m_hash_buckets_size
            \/ a.m_index_chain_size # b.m_index_chain_size
            \/ a.m_hash_mask # b.m_hash_mask
            \/ a.m_lookup_mask # b.m_lookup_mask
            \/ a.m_granularity # b.m_granularity
         THEN {"false"}
    ELSE IF is_allocated(a) # is_allocated(b) THEN {"false"}
    ELSE LET A1 == Mem(h, a.m_hash_buckets)
             B1 == Mem(h, b.m_hash_buckets)
             A2 == Mem(h, a.m_index_chain)
             B2 == Mem(h, b.m_index_chain)
             bdiff == {i \in 0..(a.m_hash_buckets_size - 1) :
                          i \in DOMAIN A1 /\ i \in DOMAIN B1 /\ A1[i] # B1[i]}
             cdiff == {i \in 0..(a.m_index_chain_size - 1) :
                          i \in DOMAIN A2 /\ i \in DOMAIN B2 /\ A2[i] # B2[i]}
             beyond == \/ \E i \in 0..(a.m_hash_buckets_size - 1) :
                               i \notin DOMAIN A1 \/ i \notin DOMAIN B1
                       \/ \E i \in 0..(a.m_index_chain_size - 1) :
                               i \notin DOMAIN A2 \/ i \notin DOMAIN B2
         IN  IF bdiff # {} \/ cdiff # {} THEN {"false"}
             ELSE IF beyond THEN {"true", "fault"}
             ELSE {"true"}

\* operator!=: the negation of what operator== produces
NeOutcomes(h, a, b, same_object) ==
    {IF e = "true" THEN "false" ELSE IF e = "false" THEN "true" ELSE e :
        e \in EqOutcomes(h, a, b, same_object)}

\* --------------------------------------------------------- usage history
\* For each object, what its caller has asked of it since it was last empty.
\* mode: "plain" after inserts of absent positions and erases of present
\* pairs only; "shifted" once insert_at_index / erase_and_remove_index were
\* used; "misused" after a position was inserted twice or an absent pair
\* erased.  at[p]: the bucket (hash & (bucket count - 1)) position p is
\* inserted under, or NoBucket.  more: a misused object is not followed any
\* further, a shifted one for one more operation.  src: the object this one
\* was copied from (0: none).
NoneAt == [p \in Positions |-> NoBucket]
EmptyHist == [mode |-> "plain", at |-> NoneAt, more |-> TRUE, src |-> 0]
Misused == [mode |-> "misused", at |-> NoneAt, more |-> TRUE, src |-> 0]

BucketOf(r, key) == key % r.m_hash_buckets_size

Track(old, new) ==
    [new EXCEPT !.more = \/ new.mode = "plain"
                        \/ (old.mode = "plain" /\ new.mode = "shifted")]

HistInsert(hh, b, index) ==
    IF hh.mode # "misused" /\ hh.at[index] = NoBucket
    THEN [hh EXCEPT !.at[index] = b]
    ELSE Misused

HistErase(hh, b, index) ==
    IF hh.mode # "misused" /\ hh.at[index] = b
    THEN [hh EXCEPT !.at[index] = NoBucket]
    ELSE Misused

HistInsertAt(hh, b, index) ==
    IF hh.mode # "misused" /\ hh.at[MaxPos] = NoBucket
    THEN [hh EXCEPT !.mode = "shifted",
                    !.at = [p \in Positions |-> IF p < index THEN hh.at[p]
                                                ELSE IF p = index THEN b
                                                ELSE hh.at[p - 1]]]
    ELSE Misused

HistEraseAt(hh, b, index) ==
    IF hh.mode # "misused" /\ hh.at[index] = b
    THEN [hh EXCEPT !.mode = "shifted",
                    !.at = [p \in Positions |-> IF p < index THEN hh.at[p]
                                                ELSE IF p = MaxPos THEN NoBucket
                                                ELSE hh.at[p + 1]]]
    ELSE Misused

\* op: the operation that led to the current state; insert_at_index also
\* keeps its arguments and every bucket's traversal before the call
NoOp == [name |-> "init", o |-> 0, src |-> 0, key |-> 0, index |-> 0, pre |-> <<>>]
Op(name, o, src) == [NoOp EXCEPT !.name = name, !.o = o, !.src = src]

\* every bucket's traversal, by bucket number
Buckets(h, r) == [b \in 0..(r.m_hash_buckets_size - 1) |-> Traverse(h, r, b)]

WorldOf(o) == World(obj[o], heap, allocated, "ok")

\* Allocator::allocate may return any unused address, and the code compares
\* buffer addresses only for identity.  The heap is kept in the numbering
\* that lists the buffers in the order the objects refer to them, so that
\* states differing only in the addresses handed out are one state.
RECURSIVE Ascending(_)
Ascending(S) ==
    IF S = {} THEN <<>>
    ELSE LET a == CHOOSE x \in S : \A y \in S : x <= y
         IN  <<a>> \o Ascending(S \ {a})

Listed(seq, p) ==
    IF p \in Addr /\ \A i \in DOMAIN seq : seq[i] # p THEN Append(seq, p) ELSE seq

Canon(ob, h, al) ==
    LET refs == Listed(Listed(Listed(Listed(<<>>, ob[1].m_hash_buckets),
                                     ob[1].m_index_chain),
                              ob[2].m_hash_buckets),
                       ob[2].m_index_chain)
        order == refs \o Ascending(al \ {refs[i] : i \in DOMAIN refs})
        To(a) == IF a \in Addr THEN CHOOSE n \in DOMAIN order : order[n] = a ELSE a
    IN  [obj |-> [o \in ObjIds |-> [ob[o] EXCEPT !.m_hash_buckets = To(@),
                                                 !.m_index_chain = To(@)]],
         heap |-> [n \in Addr |-> IF n \in DOMAIN order THEN h[order[n]] ELSE FreeBuf],
         allocated |-> {To(a) : a \in al}]

Store(ob, h, al, st) ==
    LET c == Canon(ob, h, al)
    IN  /\ obj' = c.obj
        /\ heap' = c.heap
        /\ allocated' = c.allocated
        /\ status' = st

Commit(o, w) == Store([obj EXCEPT ![o] = w.r], w.h, w.al, w.st)

\* the values held by the bucket heads and the chain slots
Stored(h, r) ==
    {Mem(h, r.m_hash_buckets)[i] : i \in DOMAIN Mem(h, r.m_hash_buckets)}
        \cup {Mem(h, r.m_index_chain)[i] : i \in DOMAIN Mem(h, r.m_index_chain)}

\* ----------------------------------------------------------------- actions
Usable(o) ==
    /\ status = "ok"
    /\ obj[o].alive
    /\ hist[o].mode = "plain" \/ hist[o].more

Insert(o, key, index) ==
    /\ Usable(o)
    /\ Commit(o, insert(WorldOf(o), key, index))
    /\ hist' = [hist EXCEPT ![o] = Track(@, HistInsert(@, BucketOf(obj[o], key), index))]
    /\ op' = Op("insert", o, o)

Erase(o, key, index) ==
    /\ Usable(o)
    /\ index < obj[o].m_index_chain_size
    /\ Commit(o, erase(WorldOf(o), key, index))
    /\ hist' = [hist EXCEPT ![o] = Track(@, HistErase(@, BucketOf(obj[o], key), index))]
    /\ op' = Op("erase", o, o)

\* the external array holds at most MaxPos + 1 items
InsertAtIndex(o, key, index) ==
    /\ Usable(o)
    /\ \A v \in Stored(heap, obj[o]) \ {null_index} : v < MaxPos
    /\ Commit(o, insert_at_index(WorldOf(o), key, index))
    /\ hist' = [hist EXCEPT ![o] = Track(@, HistInsertAt(@, BucketOf(obj[o], key), index))]
    /\ op' = [Op("insert_at_index", o, o)
                 EXCEPT !.key = key, !.index = index, !.pre = Buckets(heap, obj[o])]

EraseAndRemoveIndex(o, key, index, junk) ==
    /\ Usable(o)
    /\ index < obj[o].m_index_chain_size
    /\ Commit(o, erase_and_remove_index(WorldOf(o), key, index, junk))
    /\ hist' = [hist EXCEPT ![o] = Track(@, HistEraseAt(@, BucketOf(obj[o], key), index))]
    /\ op' = Op("erase_and_remove_index", o, o)

Clear(o) ==
    /\ Usable(o)
    /\ Commit(o, clear(WorldOf(o)))
    /\ hist' = [hist EXCEPT ![o] = Track(@, [@ EXCEPT !.at = NoneAt])]
    /\ op' = Op("clear", o, o)

ClearAndResize(o, new_hash_buckets_size, new_index_chain_size) ==
    /\ Usable(o)
    /\ is_power_of_two(new_hash_buckets_size)
    /\ Commit(o, clear_and_resize(WorldOf(o), new_hash_buckets_size, new_index_chain_size))
    /\ hist' = [hist EXCEPT ![o] = EmptyHist]
    /\ op' = Op("clear_and_resize", o, o)

ClearAndFree(o) ==
    /\ Usable(o)
    /\ Commit(o, clear_and_free(WorldOf(o)))
    /\ hist' = [hist EXCEPT ![o] = EmptyHist]
    /\ op' = Op("clear_and_free", o, o)

SetGranularity(o, new_granularity) ==
    /\ Usable(o)
    /\ new_granularity > 0
    /\ Commit(o, set_granularity(WorldOf(o), new_granularity))
    /\ hist' = [hist EXCEPT ![o] = Track(@, @)]
    /\ op' = Op("set_granularity", o, o)

ResizeIndexChain(o, new_index_chain_size) ==
    /\ Usable(o)
    /\ Commit(o, resize_index_chain(WorldOf(o), new_index_chain_size))
    /\ hist' = [hist EXCEPT ![o] = Track(@, @)]
    /\ op' = Op("resize_index_chain", o, o)

\* ------------------------------------------------------------ specification
\* One object, constructed with explicit sizes and given a granularity.
Init ==
    /\ \E nb \in BucketSizes, nc \in ChainSizes, g \in Granularities :
          obj = [o \in ObjIds |->
                    IF o = 1
                    THEN set_granularity(
                             World(internal_init(RawObj, nb, nc), <<>>, {}, "ok"), g).r
                    ELSE RawObj]
    /\ heap = [a \in Addr |-> FreeBuf]
    /\ allocated = {}
    /\ status = "ok"
    /\ hist = [o \in ObjIds |-> EmptyHist]
    /\ op = NoOp

Next ==
    \E o \in ObjIds :
        \/ \E key \in Keys, index \in Positions : Insert(o, key, index)
        \/ \E key \in Keys, index \in Positions : Erase(o, key, index)
        \/ \E key \in Keys, index \in Positions : InsertAtIndex(o, key, index)
        \/ \E key \in Keys, index \in Positions, junk \in {0, null_index} :
              EraseAndRemoveIndex(o, key, index, junk)
        \/ Clear(o)
        \/ \E nb \in BucketSizes, nc \in ChainSizes : ClearAndResize(o, nb, nc)
        \/ ClearAndFree(o)
        \/ \E g \in Granularities : SetGranularity(o, g)
        \/ \E n \in 1..(MaxPos + 2) : ResizeIndexChain(o, n)

Spec == Init /\ [][Next]_vars

\* Insertions and removals alone, on an object constructed with an empty chain.
InitChain ==
    /\ Init
    /\ obj[1].m_index_chain_size = 0

NextChain ==
    \/ \E key \in Keys, index \in Positions : Insert(1, key, index)
    \/ \E key \in Keys, index \in Positions : Erase(1, key, index)

SpecChain == InitChain /\ [][NextChain]_vars

\* ------------------------------------------------ construction and copying
\* hash_index(): default construction into the storage of object d
DefaultConstruct(d) ==
    /\ status = "ok"
    /\ ~obj[d].alive
    /\ Commit(d, [WorldOf(d) EXCEPT !.r = internal_init(RawObj, default_initial_size,
                                                        default_initial_size)])
    /\ hist' = [hist EXCEPT ![d] = EmptyHist]
    /\ op' = Op("construct", d, d)

\* ~hash_index()
Destroy(o) ==
    /\ status = "ok"
    /\ obj[o].alive
    /\ LET w == clear_and_free(WorldOf(o))
       IN  Commit(o, [w EXCEPT !.r = RawObj])
    /\ hist' = [x \in ObjIds |-> IF x = o THEN EmptyHist
                                  ELSE [hist[x] EXCEPT !.src = IF @ = o THEN 0 ELSE @]]
    /\ op' = Op("destroy", o, o)

\* hash_index d{ s }
CopyConstruct(d, s) ==
    /\ Usable(s)
    /\ ~obj[d].alive
    /\ Commit(d, copy_construct(WorldOf(d), obj[s]))
    /\ hist' = [hist EXCEPT ![d] = [hist[s] EXCEPT !.src = s]]
    /\ op' = Op("copy_construct", d, s)

\* d = s: the argument is a copy of s, swapped with d and then destroyed
CopyAssign(d, s) ==
    /\ Usable(s)
    /\ obj[d].alive
    /\ LET other == copy_construct(World(RawObj, heap, allocated, "ok"), obj[s])
           sw == swap(obj[d], other.r)
           gone == clear_and_free([other EXCEPT !.r = sw.rhs])
       IN  Commit(d, [gone EXCEPT !.r = sw.lhs])
    /\ hist' = [hist EXCEPT ![d] = IF d = s THEN @ ELSE [hist[s] EXCEPT !.src = s]]
    /\ op' = Op("copy_assign", d, s)

\* hash_index d{ std::move(s) }: default construction, then swap
MoveConstruct(d, s) ==
    /\ Usable(s)
    /\ ~obj[d].alive
    /\ LET sw == swap(internal_init(RawObj, default_initial_size, default_initial_size),
                      obj[s])
       IN  Store([obj EXCEPT ![d] = sw.lhs, ![s] = sw.rhs], heap, allocated, status)
    /\ hist' = [hist EXCEPT ![d] = [hist[s] EXCEPT !.src = 0], ![s] = EmptyHist]
    /\ op' = Op("move_construct", d, s)

\* swap(a, b) on two live objects
Swap(a, b) ==
    /\ status = "ok"
    /\ a # b
    /\ obj[a].alive /\ obj[b].alive
    /\ LET sw == swap(obj[a], obj[b])
       IN  Store([obj EXCEPT ![a] = sw.lhs, ![b] = sw.rhs], heap, allocated, status)
    /\ hist' = [hist EXCEPT ![a] = [hist[b] EXCEPT !.src = 0],
                            ![b] = [hist[a] EXCEPT !.src = 0]]
    /\ op' = Op("swap", a, b)

\* Two objects: construction, copies, moves and destruction, with insertions
\* of absent positions and removals of inserted pairs on objects whose
\* recorded sizes are at most MaxAlloc.
Small(o) ==
    /\ obj[o].m_hash_buckets_size <= MaxAlloc
    /\ obj[o].m_index_chain_size <= MaxAlloc
    /\ obj[o].m_granularity <= MaxAlloc

InitCopy ==
    /\ obj = [o \in ObjIds |->
                 IF o = 1
                 THEN internal_init(RawObj, default_initial_size, default_initial_size)
                 ELSE RawObj]
    /\ heap = [a \in Addr |-> FreeBuf]
    /\ allocated = {}
    /\ status = "ok"
    /\ hist = [o \in ObjIds |-> EmptyHist]
    /\ op = NoOp

NextCopy ==
    \/ \E d \in ObjIds : DefaultConstruct(d)
    \/ \E o \in ObjIds : Destroy(o)
    \/ \E d, s \in ObjIds : CopyConstruct(d, s)
    \/ \E d, s \in ObjIds : CopyAssign(d, s)
    \/ \E d, s \in ObjIds : MoveConstruct(d, s)
    \/ \E a, b \in ObjIds : Swap(a, b)
    \/ \E o \in ObjIds, key \in {0, 1}, index \in {0, 1} :
          Small(o) /\ hist[o].at[index] = NoBucket /\ Insert(o, key, index)
    \/ \E o \in ObjIds, key \in {0, 1}, index \in {0, 1} :
          /\ obj[o].alive
          /\ hist[o].at[index] = BucketOf(obj[o], key)
          /\ Erase(o, key, index)
    \/ \E o \in ObjIds : Clear(o)
    \/ \E o \in ObjIds : ClearAndResize(o, 2, 1)
    \/ \E o \in ObjIds : ClearAndFree(o)
    \/ \E o \in ObjIds : SetGranularity(o, 1)
    \/ \E o \in ObjIds : Small(o) /\ ResizeIndexChain(o, 2)

SpecCopy == InitCopy /\ [][NextCopy]_vars

\* One object constructed with any small chain capacity and granularity;
\* the chain grows through insert alone.
GrowGranularities == {1, 2, 3}

InitGrow ==
    /\ \E nb \in {1, 2}, nc \in 0..(MaxPos + 1), g \in GrowGranularities :
          obj = [o \in ObjIds |->
                    IF o = 1
                    THEN set_granularity(
                             World(internal_init(RawObj, nb, nc), <<>>, {}, "ok"), g).r
                    ELSE RawObj]
    /\ heap = [a \in Addr |-> FreeBuf]
    /\ allocated = {}
    /\ status = "ok"
    /\ hist = [o \in ObjIds |-> EmptyHist]
    /\ op = NoOp

NextGrow ==
    \/ \E key \in {0, 1}, index \in Positions : Insert(1, key, index)
    \/ \E key \in {0, 1}, index \in Positions : Erase(1, key, index)
    \/ \E g \in GrowGranularities : SetGranularity(1, g)
    \/ Clear(1)

SpecGrow == InitGrow /\ [][NextGrow]_vars

\* The same object with explicit resize_index_chain calls, whose request can
\* be any size_type value (here: small ones and the greatest); insertions on
\* objects whose recorded sizes are at most MaxAlloc.
ResizeRequests == (1..(MaxPos + 2)) \cup {AllOnes}

NextResize ==
    \/ \E key \in {0, 1}, index \in Positions : Small(1) /\ Insert(1, key, index)
    \/ \E g \in GrowGranularities : SetGranularity(1, g)
    \/ \E n \in ResizeRequests : ResizeIndexChain(1, n)

SpecResize == InitGrow /\ [][NextResize]_vars

\* One object that is emptied, freed and given new sizes between insertions.
NextSize ==
    \/ \E key \in Keys, index \in Positions : Insert(1, key, index)
    \/ Clear(1)
    \/ ClearAndFree(1)
    \/ \E nb \in BucketSizes, nc \in ChainSizes : ClearAndResize(1, nb, nc)

SpecSize == Init /\ [][NextSize]_vars

\* An object with 1, 2 or 4 buckets filled position by position, each position
\* under hash 0 or under a hash equal to the position, and measured.
Fill(o, key) ==
    LET index == IF is_allocated(obj[o]) THEN obj[o].m_index_chain_size ELSE 0
    IN  /\ Usable(o)
        /\ index < DistMax
        /\ key \in {0, index}
        /\ Commit(o, insert(WorldOf(o), key, index))
        /\ hist' = [hist EXCEPT ![o].at = [p \in Positions |->
                        IF p = index THEN BucketOf(obj[o], key) ELSE @[p]]]
        /\ op' = Op("insert", o, o)

Measure(o) ==
    /\ Usable(o)
    /\ op.name # "compute_distribution_percentage"
    /\ op' = [Op("compute_distribution_percentage", o, o)
                 EXCEPT !.pre = <<compute_distribution_percentage(heap, obj[o])>>]
    /\ UNCHANGED <<obj, heap, allocated, status, hist>>

InitDist ==
    /\ \E nb \in BucketSizes :
          obj = [o \in ObjIds |->
                    IF o = 1
                    THEN set_granularity(
                             World(internal_init(RawObj, nb, 0), <<>>, {}, "ok"), 1).r
                    ELSE RawObj]
    /\ heap = [a \in Addr |-> FreeBuf]
    /\ allocated = {}
    /\ status = "ok"
    /\ hist = [o \in ObjIds |-> EmptyHist]
    /\ op = NoOp

NextDist ==
    \/ \E key \in 0..(DistMax - 1) : Fill(1, key)
    \/ Measure(1)

SpecDist == InitDist /\ [][NextDist]_vars

\* ================================================================== claims
Range(seq) == {seq[i] : i \in DOMAIN seq}

Plain(o) == obj[o].alive /\ hist[o].mode = "plain"

\* the keys of Keys that select bucket b of object record r
KeysOf(r, b) == {key \in Keys : BucketOf(r, key) = b}

\* C1: after inserts of pairwise distinct positions (and erases of inserted
\* pairs), every pair (hash, position) still inserted is found by the
\* traversal from first(hash) along next before the sentinel, and
\* first(hash) is not the sentinel.
C1_InsertedIsReached ==
    \A o \in ObjIds : Plain(o) =>
        \A p \in Positions : hist[o].at[p] # NoBucket =>
            \A key \in KeysOf(obj[o], hist[o].at[p]) :
                /\ first(heap, obj[o], key) # null_index
                /\ p \in Range(Traverse(heap, obj[o], key).seq)
                /\ Traverse(heap, obj[o], key).end = "null"

\* three positions inserted under colliding hashes, the last insert having
\* grown the chain
C1_Witness ==
    /\ Plain(1)
    /\ op.name = "insert"
    /\ obj[1].m_hash_buckets_size = 4
    /\ \A p \in 0..2 : hist[1].at[p] = 0
    /\ Traverse(heap, obj[1], 8).seq = <<2, 0, 1>>

\* C2: after erase(hash, position) of a pair that was inserted, the traversal
\* from first(hash) ends at the sentinel without visiting position.
C2_ErasedIsNotReached ==
    [][\A o \in ObjIds, key \in Keys, index \in Positions :
          (/\ Plain(o)
           /\ hist[o].at[index] = BucketOf(obj[o], key)
           /\ Erase(o, key, index))
          => /\ index \notin Range(Traverse(heap', obj'[o], key).seq)
             /\ Traverse(heap', obj'[o], key).end = "null"]_vars

\* a position erased from the middle of a chain of three
C2_Witness ==
    /\ Plain(1)
    /\ op.name = "erase"
    /\ obj[1].m_hash_buckets_size = 2
    /\ hist[1].at = [p \in Positions |-> IF p \in {0, 2} THEN 0 ELSE NoBucket]
    /\ Traverse(heap, obj[1], 0).seq = <<2, 0>>
    /\ next(heap, obj[1], 1) = null_index

\* C3: insert(hash, position) prepends: afterwards first(hash) = position and
\* next(position) is what first(hash) was before the call; when position was
\* not inserted, the bucket's traversal is position followed by the previous
\* traversal.  With 4 buckets, inserting (0,0), (4,1), (8,2) gives
\* first(0) = 2, next(2) = 1, next(1) = 0, next(0) = sentinel.
C3_InsertPrepends ==
    [][\A o \in ObjIds, key \in Keys, index \in Positions :
          Insert(o, key, index) =>
             /\ first(heap', obj'[o], key) = index
             /\ next(heap', obj'[o], index) = first(heap, obj[o], key)
             /\ (Plain(o) /\ hist[o].at[index] = NoBucket) =>
                    Traverse(heap', obj'[o], key).seq =
                        <<index>> \o Traverse(heap, obj[o], key).seq
             /\ (/\ obj[o].m_hash_buckets_size = 4
                 /\ Plain(o) /\ hist[o].at = NoneAt
                 /\ key = 0 /\ index = 0)
                => Traverse(heap', obj'[o], 0).seq = <<0>>
             /\ (/\ obj[o].m_hash_buckets_size = 4
                 /\ Plain(o) /\ Traverse(heap, obj[o], 0).seq = <<0>>
                 /\ key = 4 /\ index = 1)
                => Traverse(heap', obj'[o], 0).seq = <<1, 0>>
             /\ (/\ obj[o].m_hash_buckets_size = 4
                 /\ Plain(o) /\ Traverse(heap, obj[o], 0).seq = <<1, 0>>
                 /\ key = 8 /\ index = 2)
                => /\ first(heap', obj'[o], 0) = 2
                   /\ next(heap', obj'[o], 2) = 1
                   /\ next(heap', obj'[o], 1) = 0
                   /\ next(heap', obj'[o], 0) = null_index]_vars

\* the state of the scenario: 4 buckets, positions 0, 1, 2 inserted in this
\* order under hashes of bucket 0
C3_Witness ==
    /\ Plain(1)
    /\ op.name = "insert"
    /\ obj[1].m_hash_buckets_size = 4
    /\ obj[1].m_hash_mask = 3
    /\ \A p \in 0..2 : hist[1].at[p] = 0
    /\ first(heap, obj[1], 0) = 2
    /\ next(heap, obj[1], 2) = 1
    /\ next(heap, obj[1], 1) = 0
    /\ next(heap, obj[1], 0) = null_index

\* C4: erase(hash, position) with position inside the chain capacity but
\* not in the chain of bucket (hash & hash_mask) changes no bucket head, no
\* chain slot and no scalar, so every bucket's traversal is unchanged.
C4_EraseAbsentIsNoOp ==
    [][\A o \in ObjIds, key \in Keys, index \in Positions :
          (/\ Plain(o)
           /\ hist[o].at[index] # BucketOf(obj[o], key)
           /\ Erase(o, key, index))
          => /\ obj'[o] = obj[o]
             /\ heap' = heap
             /\ Buckets(heap', obj'[o]) = Buckets(heap, obj[o])]_vars

\* C5: on a structure holding distinct positions, insert_at_index(hash, p)
\* followed by erase_and_remove_index(hash, p) leaves every bucket's
\* traversal as it was before the two calls.
C5_OrderedRoundTrip ==
    [][\A o \in ObjIds, junk \in {0, null_index} :
          (/\ op.name = "insert_at_index"
           /\ op.o = o
           /\ hist[o].mode = "shifted"
           /\ hist[o].more
           /\ EraseAndRemoveIndex(o, op.key, op.index, junk))
          => /\ status' = "ok"
             /\ Buckets(heap', obj'[o]) = op.pre]_vars

\* the reference operators on a traversal
ShiftUp(seq, p) == [i \in DOMAIN seq |-> IF seq[i] >= p THEN seq[i] + 1 ELSE seq[i]]
ShiftDown(seq, p) == [i \in DOMAIN seq |-> IF seq[i] > p THEN seq[i] - 1 ELSE seq[i]]
Without(seq, p) == SelectSeq(seq, LAMBDA q : q # p)

\* C6: insert_at_index(hash, p) on an allocated structure: each bucket's
\* traversal afterwards is its previous traversal with every q >= p replaced
\* by q + 1, in the same order, with p in front for bucket (hash & hash_mask);
\* the chain capacity covers the new greatest position.
C6_InsertAtIndexShiftsThenPrepends ==
    [][\A o \in ObjIds, key \in Keys, index \in Positions :
          (/\ Plain(o)
           /\ is_allocated(obj[o])
           /\ InsertAtIndex(o, key, index))
          => /\ status' = "ok"
             /\ \A b \in 0..(obj[o].m_hash_buckets_size - 1) :
                   /\ Traverse(heap', obj'[o], b).end = "null"
                   /\ Traverse(heap', obj'[o], b).seq =
                        (IF b = BucketOf(obj[o], key) THEN <<index>> ELSE <<>>)
                            \o ShiftUp(Traverse(heap, obj[o], b).seq, index)
             /\ \A v \in Stored(heap', obj'[o]) \ {null_index} :
                   v < obj'[o].m_index_chain_size]_vars

\* C7: erase_and_remove_index(hash, p) on an allocated structure where p was
\* inserted under hash: each bucket's traversal afterwards is its previous
\* traversal with p removed and every q > p replaced by q - 1, in the same
\* order.
C7_EraseAndRemoveShiftsDown ==
    [][\A o \in ObjIds, key \in Keys, index \in Positions, junk \in {0, null_index} :
          (/\ Plain(o)
           /\ is_allocated(obj[o])
           /\ hist[o].at[index] = BucketOf(obj[o], key)
           /\ EraseAndRemoveIndex(o, key, index, junk))
          => /\ status' = "ok"
             /\ \A b \in 0..(obj[o].m_hash_buckets_size - 1) :
                   /\ Traverse(heap', obj'[o], b).end = "null"
                   /\ Traverse(heap', obj'[o], b).seq =
                        ShiftDown(Without(Traverse(heap, obj[o], b).seq, index), index)]_vars

\* C8: insert_at_index(hash, p) always ends with a normal insert of (hash, p),
\* also on a structure that was never allocated: afterwards the structure is
\* allocated and first(hash) = p.
C8_InsertAtIndexInserts ==
    [][\A o \in ObjIds, key \in Keys, index \in Positions :
          InsertAtIndex(o, key, index)
          => /\ is_allocated(obj'[o])
             /\ first(heap', obj'[o], key) = index]_vars

\* the same scalars, the same allocation status, and the same bucket heads
\* and chain slots: record a in heap h1 against record b in heap h2
DeepEqual(h1, a, h2, b) ==
    /\ a.m_hash_buckets_size = b.m_hash_buckets_size
    /\ a.m_index_chain_size = b.m_index_chain_size
    /\ a.m_hash_mask = b.m_hash_mask
    /\ a.m_lookup_mask = b.m_lookup_mask
    /\ a.m_granularity = b.m_granularity
    /\ is_allocated(a) = is_allocated(b)
    /\ Mem(h1, a.m_hash_buckets) = Mem(h2, b.m_hash_buckets)
    /\ Mem(h1, a.m_index_chain) = Mem(h2, b.m_index_chain)

\* an insert, erase, clear or resize applied to object o
Mutation(o) ==
    \/ \E key \in {0, 1}, index \in {0, 1} : Insert(o, key, index)
    \/ \E key \in {0, 1}, index \in {0, 1} : Erase(o, key, index)
    \/ Clear(o)
    \/ ClearAndResize(o, 2, 1)
    \/ ResizeIndexChain(o, 2)

\* C9: copy construction and copy assignment give a structure for which
\* operator== answers true in both argument orders, with the same bucket
\* count, chain capacity and allocated_bytes as the original; a later insert,
\* erase, clear or resize applied to the copy leaves every bucket head, chain
\* slot and scalar of the original unchanged.
C9_CopyIsDeepAndIndependent ==
    [][/\ \A d, s \in ObjIds :
             (CopyConstruct(d, s) \/ CopyAssign(d, s))
             => /\ EqOutcomes(heap', obj'[d], obj'[s], d = s) = {"true"}
                /\ EqOutcomes(heap', obj'[s], obj'[d], d = s) = {"true"}
                /\ obj'[d].m_hash_buckets_size = obj'[s].m_hash_buckets_size
                /\ obj'[d].m_index_chain_size = obj'[s].m_index_chain_size
                /\ allocated_bytes(obj'[d]) = allocated_bytes(obj'[s])
       /\ \A o, s \in ObjIds :
             (/\ s # o
              /\ hist[o].src = s
              /\ obj[s].alive
              /\ Mutation(o))
             => DeepEqual(heap', obj'[s], heap, obj[s])]_vars

\* C10: after move construction from S the destination holds what S held
\* before the move (scalars, bucket heads, chain slots), and S is in the
\* default-constructed empty state: not allocated, allocated_bytes 0, and
\* first(h) the sentinel for every h.
C10_MoveTransfers ==
    [][\A d, s \in ObjIds :
          MoveConstruct(d, s)
          => /\ DeepEqual(heap', obj'[d], heap, obj[s])
             /\ obj'[d].alive
             /\ ~is_allocated(obj'[s])
             /\ allocated_bytes(obj'[s]) = 0
             /\ obj'[s] = internal_init(RawObj, default_initial_size,
                                        default_initial_size)
             /\ \A key \in Keys : first(heap', obj'[s], key) = null_index]_vars

\* object 2 move-constructed from object 1, which held positions 0 and 1
C10_Witness ==
    /\ op.name = "move_construct"
    /\ op.o = 2
    /\ op.src = 1
    /\ is_allocated(obj[2])
    /\ Traverse(heap, obj[2], 0).seq = <<1, 0>>
    /\ allocated_bytes(obj[2]) = 4 * sizeof_index_type
    /\ ~is_allocated(obj[1])
    /\ obj[1].m_hash_buckets_size = default_initial_size
    /\ allocated = {obj[2].m_hash_buckets, obj[2].m_index_chain}

\* C11 (as amended): inserting position p into an allocated structure whose
\* chain capacity is c <= p, with granularity g, makes the chain capacity the
\* smallest multiple of g that is >= p + 1.
C11_GrowthRoundsRequest ==
    [][\A key \in {0, 1}, index \in Positions :
          (/\ is_allocated(obj[1])
           /\ index >= obj[1].m_index_chain_size
           /\ Insert(1, key, index))
          => LET g == obj[1].m_granularity
                 new == obj'[1].m_index_chain_size
             IN  /\ new % g = 0
                 /\ new >= index + 1
                 /\ new - g < index + 1]_vars

\* C11 (as stated): the new capacity is c + g - ((p+1-c) mod g) when
\* (p+1-c) mod g is not 0, and exactly p + 1 otherwise.
C11_GrowthAsStated ==
    [][\A key \in {0, 1}, index \in Positions :
          (/\ is_allocated(obj[1])
           /\ index >= obj[1].m_index_chain_size
           /\ Insert(1, key, index))
          => LET g == obj[1].m_granularity
                 c == obj[1].m_index_chain_size
                 rest == (index + 1 - c) % g
             IN  obj'[1].m_index_chain_size =
                    IF rest # 0 THEN c + g - rest ELSE index + 1]_vars

\* position 0 inserted first, then position 2 beyond the capacity: with
\* granularity 2 the chain has grown to 4 slots
C11_Witness ==
    /\ Plain(1)
    /\ op.name = "insert"
    /\ is_allocated(obj[1])
    /\ obj[1].m_granularity = 2
    /\ obj[1].m_index_chain_size = 4
    /\ hist[1].at[0] # NoBucket
    /\ hist[1].at[1] = NoBucket
    /\ hist[1].at[2] # NoBucket
    /\ next(heap, obj[1], 3) = null_index

\* C12: resize_index_chain(n) with n greater than the chain capacity makes
\* the capacity the smallest multiple of the granularity that is >= n, whether
\* the structure is allocated or the growth is deferred; with n at most the
\* capacity it changes nothing.  (A call whose allocation fails is left out.)
C12_ResizeRoundsUp ==
    [][\A n \in ResizeRequests :
          (ResizeIndexChain(1, n) /\ status' # "bad_alloc")
          => LET g == obj[1].m_granularity
                 c == obj[1].m_index_chain_size
                 new == obj'[1].m_index_chain_size
             IN  IF n > c
                 THEN /\ status' = "ok"
                      /\ new % g = 0
                      /\ new >= n
                      /\ new - g < n
                 ELSE /\ obj' = obj
                      /\ heap' = heap
                      /\ status' = "ok"]_vars

\* a call of one of insert, insert_at_index, erase, erase_and_remove_index,
\* clear, set_granularity, resize_index_chain on object o
ListedCall(o) ==
    \/ \E key \in Keys, index \in Positions : Insert(o, key, index)
    \/ \E key \in Keys, index \in Positions : InsertAtIndex(o, key, index)
    \/ \E key \in Keys, index \in Positions : Erase(o, key, index)
    \/ \E key \in Keys, index \in Positions, junk \in {0, null_index} :
          EraseAndRemoveIndex(o, key, index, junk)
    \/ Clear(o)
    \/ \E g \in Granularities : SetGranularity(o, g)
    \/ \E n \in 1..(MaxPos + 2) : ResizeIndexChain(o, n)

\* C13: along insert, insert_at_index, erase, erase_and_remove_index, clear,
\* set_granularity and resize_index_chain the chain capacity is at least
\* 1 + the greatest position stored or ever passed to insert.  Stated step by
\* step: each such call ends normally, leaves every stored position below the
\* capacity, leaves the capacity above the position an insert was given, and
\* does not lower the capacity (so positions passed earlier stay covered).
C13_ChainCoversPositions ==
    [][\A o \in ObjIds :
          ListedCall(o)
          => /\ status' = "ok"
             /\ \A v \in Stored(heap', obj'[o]) \ {null_index} :
                   v < obj'[o].m_index_chain_size
             /\ \A key \in Keys, index \in Positions :
                   (Insert(o, key, index) \/
                    (is_allocated(obj[o]) /\ InsertAtIndex(o, key, index)))
                   => index < obj'[o].m_index_chain_size
             /\ obj'[o].m_index_chain_size >= obj[o].m_index_chain_size]_vars

\* C14: in every reachable state every live object's bucket count is a power
\* of two and its stored hash mask is the bucket count - 1.
C14_MaskMatchesBucketCount ==
    \A o \in ObjIds : obj[o].alive =>
        /\ is_power_of_two(obj[o].m_hash_buckets_size)
        /\ obj[o].m_hash_mask = obj[o].m_hash_buckets_size - 1

\* C15: on a structure that is not allocated first(h) is the sentinel for
\* every hash h and next(p) is the sentinel for every p below the recorded
\* chain capacity; on an allocated structure first(h) is the head stored for
\* bucket h & (bucket count - 1).
C15_LookupOnEmptyAndAllocated ==
    \A o \in ObjIds : (obj[o].alive /\ status = "ok") =>
        IF ~is_allocated(obj[o])
        THEN /\ \A key \in Keys : first(heap, obj[o], key) = null_index
             /\ \A p \in Positions :
                   p < obj[o].m_index_chain_size => next(heap, obj[o], p) = null_index
        ELSE \A key \in Keys :
                first(heap, obj[o], key) =
                    heap[obj[o].m_hash_buckets][BitAnd(key, obj[o].m_hash_buckets_size - 1)]

\* object 1 was moved from and is empty; object 2 holds position 0 under
\* bucket 0 and position 1 under bucket 1
C15_Witness ==
    /\ status = "ok"
    /\ op.name = "move_construct"
    /\ op.src = 1
    /\ ~is_allocated(obj[1])
    /\ obj[1].m_index_chain_size = default_initial_size
    /\ next(heap, obj[1], MaxPos) = null_index
    /\ is_allocated(obj[2])
    /\ first(heap, obj[2], 0) = 0
    /\ first(heap, obj[2], 1) = 1

\* C16: insert, erase, insert_at_index, erase_and_remove_index, clear,
\* set_granularity and resize_index_chain never lower the chain capacity.
C16_CapacityMonotone ==
    [][\A o \in ObjIds :
          (\/ \E key \in Keys, index \in Positions : Insert(o, key, index)
           \/ \E key \in Keys, index \in Positions : Erase(o, key, index)
           \/ \E key \in Keys, index \in Positions : InsertAtIndex(o, key, index)
           \/ \E key \in Keys, index \in Positions, junk \in {0, null_index} :
                 EraseAndRemoveIndex(o, key, index, junk)
           \/ Clear(o)
           \/ \E g \in GrowGranularities : SetGranularity(o, g)
           \/ \E n \in ResizeRequests : ResizeIndexChain(o, n))
          => obj'[o].m_index_chain_size >= obj[o].m_index_chain_size]_vars

\* C17: compute_distribution_percentage returns a value in 0..100 in every
\* reachable state, for every bucket count and number of items.
C17_ScoreInRange ==
    [][\A o \in ObjIds :
          Measure(o) => /\ op'.pre[1].end = "ok"
                        /\ op'.pre[1].value \in 0..100]_vars

\* the reference formula of the distribution score, in unbounded integers, over
\* the chain lengths found by first/next
RefLengths(h, r) ==
    [b \in 0..(r.m_hash_buckets_size - 1) |-> Len(Traverse(h, r, b).seq)]

RefError(lengths, last, average) ==
    SumTo([b \in 0..last |->
              LET d == lengths[b] - average
                  a == IF d < 0 THEN -d ELSE d
              IN  IF a - 1 > 0 THEN a - 1 ELSE 0], last)

RefScore(h, r) ==
    LET last == r.m_hash_buckets_size - 1
        lengths == RefLengths(h, r)
        total == SumTo(lengths, last)
    IN  IF ~is_allocated(r) \/ total <= 1 THEN 100
        ELSE 100 - ((RefError(lengths, last, total \div r.m_hash_buckets_size) * 100)
                        \div total)

\* C18: compute_distribution_percentage returns the value of the reference
\* formula: 100 when unallocated or holding at most one item, otherwise
\* 100 - error*100/total_items.
C18_ScoreIsReference ==
    [][\A o \in ObjIds :
          Measure(o) => /\ op'.pre[1].end = "ok"
                        /\ op'.pre[1].value = RefScore(heap, obj[o])]_vars

\* the world after inserting positions 0..n-1 into a fresh structure of nb
\* buckets, every position under hash 0 (spread = FALSE) or position p under
\* hash p (spread = TRUE)
RECURSIVE Filled(_, _, _)
Filled(nb, n, spread) ==
    IF n = 0
    THEN set_granularity(World(internal_init(RawObj, nb, 0), [a \in Addr |-> FreeBuf], {}, "ok"), 1)
    ELSE insert(Filled(nb, n - 1, spread), IF spread THEN n - 1 ELSE 0, n - 1)

ScoreOf(w) == compute_distribution_percentage(w.h, w.r).value

\* C19: for N > 1 items and B > 1 buckets the score with all N positions under
\* one hash is strictly below the score with the N positions spread evenly,
\* and the even spread scores 100 when N is a multiple of B.
C19_OneHashScoresBelowEven ==
    \A o \in ObjIds :
        LET B == obj[o].m_hash_buckets_size
            N == obj[o].m_index_chain_size
        IN  (Usable(o) /\ is_allocated(obj[o]) /\ N > 1 /\ B > 1
             /\ op.name = "compute_distribution_percentage")
            => /\ ScoreOf(Filled(B, N, FALSE)) < ScoreOf(Filled(B, N, TRUE))
               /\ (N % B = 0 => ScoreOf(Filled(B, N, TRUE)) = 100)

\* identical bucket count, chain capacity, masks and granularity and, when
\* allocated, element-wise identical bucket and chain buffers
SameContents(h, a, b) ==
    /\ a.m_hash_buckets_size = b.m_hash_buckets_size
    /\ a.m_index_chain_size = b.m_index_chain_size
    /\ a.m_hash_mask = b.m_hash_mask
    /\ a.m_lookup_mask = b.m_lookup_mask
    /\ a.m_granularity = b.m_granularity
    /\ (is_allocated(a) \/ is_allocated(b))
       => /\ is_allocated(a) /\ is_allocated(b)
          /\ \A i \in 0..(a.m_hash_buckets_size - 1) :
                Mem(h, a.m_hash_buckets)[i] = Mem(h, b.m_hash_buckets)[i]
          /\ \A i \in 0..(a.m_index_chain_size - 1) :
                Mem(h, a.m_index_chain)[i] = Mem(h, b.m_index_chain)[i]

\* C20: operator== answers true exactly when the two structures have the same
\* scalars and, when allocated, the same buffer contents (two unallocated
\* structures with the same scalars are equal); it is reflexive and symmetric,
\* and operator!= answers the opposite.
C20_EqualityIsDeep ==
    \A a, b \in ObjIds :
        (obj[a].alive /\ obj[b].alive /\ status = "ok")
        => /\ EqOutcomes(heap, obj[a], obj[b], a = b)
                = {IF SameContents(heap, obj[a], obj[b]) THEN "true" ELSE "false"}
           /\ EqOutcomes(heap, obj[a], obj[a], TRUE) = {"true"}
           /\ EqOutcomes(heap, obj[b], obj[a], a = b)
                = EqOutcomes(heap, obj[a], obj[b], a = b)
           /\ NeOutcomes(heap, obj[a], obj[b], a = b)
                = {IF SameContents(heap, obj[a], obj[b]) THEN "false" ELSE "true"}

\* a run of inserts, applied in order to world w
RECURSIVE InsertAll(_, _)
InsertAll(w, run) ==
    IF run = <<>> THEN w
    ELSE InsertAll(insert(w, run[1][1], run[1][2]), Tail(run))

\* the runs of at most MaxPos + 1 inserts of pairwise distinct positions
DistinctRuns ==
    {run \in UNION {[1..n -> {0, 1} \X Positions] : n \in 0..(MaxPos + 1)} :
        \A i, j \in DOMAIN run : i # j => run[i][2] # run[j][2]}

\* a structure with the scalars of r whose buffers were just allocated
FreshlyAllocated(r) ==
    internal_allocate(World([r EXCEPT !.m_hash_buckets = m_invalid_index_dummy,
                                      !.m_index_chain = m_invalid_index_dummy],
                            [a \in Addr |-> FreeBuf], {}, "ok"),
                      r.m_hash_buckets_size, r.m_index_chain_size)

\* C21: clear() on an allocated structure sets every bucket head to the
\* sentinel and keeps is_allocated(), the bucket count and the chain capacity;
\* afterwards first(h) is the sentinel for every h, and every run of inserts of
\* distinct positions gives the bucket traversals the same run gives on a
\* freshly allocated structure.
C21_ClearEmptiesBuckets ==
    /\ [][\A o \in ObjIds :
             (is_allocated(obj[o]) /\ Clear(o))
             => /\ \A i \in 0..(obj[o].m_hash_buckets_size - 1) :
                      heap'[obj'[o].m_hash_buckets][i] = null_index
                /\ is_allocated(obj'[o])
                /\ obj'[o].m_hash_buckets_size = obj[o].m_hash_buckets_size
                /\ obj'[o].m_index_chain_size = obj[o].m_index_chain_size
                /\ \A key \in Keys : first(heap', obj'[o], key) = null_index]_vars
    /\ [](\A o \in ObjIds :
             (op.name = "clear" /\ op.o = o /\ is_allocated(obj[o]))
             => \A run \in DistinctRuns :
                   LET after == InsertAll(World(obj[o], heap, allocated, "ok"), run)
                       fresh == InsertAll(FreshlyAllocated(obj[o]), run)
                   IN  /\ after.st = "ok"
                       /\ Buckets(after.h, after.r) = Buckets(fresh.h, fresh.r))

\* a cleared structure whose chain still holds a link from before the clear
C21_Witness ==
    /\ op.name = "clear"
    /\ is_allocated(obj[1])
    /\ obj[1].m_hash_buckets_size = 2
    /\ \E i \in 0..(obj[1].m_index_chain_size - 1) :
          heap[obj[1].m_index_chain][i] # null_index

\* C22: clear_and_free() from any state leaves the structure not allocated,
\* with allocated_bytes() 0, lookup mask 0 and first(h) the sentinel for every
\* h; an insert(h, p) that follows allocates again and makes first(h) = p.
C22_ClearAndFreeResets ==
    [][\A o \in ObjIds :
          /\ ClearAndFree(o)
             => /\ status' = "ok"
                /\ ~is_allocated(obj'[o])
                /\ allocated_bytes(obj'[o]) = 0
                /\ obj'[o].m_lookup_mask = 0
                /\ \A key \in Keys : first(heap', obj'[o], key) = null_index
                /\ obj'[o].m_hash_buckets \notin allocated'
                /\ obj'[o].m_index_chain \notin allocated'
          /\ \A key \in Keys, index \in Positions :
                (op.name = "clear_and_free" /\ op.o = o /\ Insert(o, key, index))
                => /\ status' = "ok"
                   /\ is_allocated(obj'[o])
                   /\ first(heap', obj'[o], key) = index]_vars

\* a structure that was allocated with two buckets and then freed
C22_Witness ==
    /\ op.name = "clear_and_free"
    /\ op.o = 1
    /\ ~is_allocated(obj[1])
    /\ obj[1].m_hash_buckets_size = 2
    /\ obj[1].m_hash_mask = 1
    /\ allocated = {}

\* hash codes that select every bucket of the bucket counts used
HashCodes == 0..7

\* C23: clear_and_resize(b, c) with b a power of two leaves the structure not
\* allocated, allocated_bytes() 0, with bucket count b and chain capacity c;
\* the next insert(h, p) allocates b buckets and puts p in bucket h & (b - 1):
\* first(h') is p for every h' of that bucket and the sentinel for every other.
C23_ClearAndResizeRecordsSizes ==
    /\ [][\A o \in ObjIds, b \in BucketSizes, c \in ChainSizes :
             ClearAndResize(o, b, c)
             => /\ status' = "ok"
                /\ ~is_allocated(obj'[o])
                /\ allocated_bytes(obj'[o]) = 0
                /\ obj'[o].m_hash_buckets_size = b
                /\ obj'[o].m_index_chain_size = c]_vars
    /\ [](\A o \in ObjIds :
             (op.name = "clear_and_resize" /\ op.o = o)
             => \A h \in HashCodes, p \in Positions :
                   LET w == insert(WorldOf(o), h, p)
                       b == obj[o].m_hash_buckets_size
                   IN  /\ w.st = "ok"
                       /\ is_allocated(w.r)
                       /\ DOMAIN w.h[w.r.m_hash_buckets] = 0..(b - 1)
                       /\ \A other \in HashCodes :
                             first(w.h, w.r, other)
                                = IF BitAnd(other, b - 1) = BitAnd(h, b - 1)
                                  THEN p ELSE null_index)

\* four buckets and a chain of MaxPos + 1 requested of a structure whose hash
\* mask still is that of its two former buckets
C23_Witness ==
    /\ op.name = "clear_and_resize"
    /\ op.o = 1
    /\ ~is_allocated(obj[1])
    /\ obj[1].m_hash_buckets_size = 4
    /\ obj[1].m_index_chain_size = MaxPos + 1
    /\ obj[1].m_hash_mask = 1

\* the first position of seq that is in S, or the sentinel
FirstIn(seq, S) ==
    IF \E i \in DOMAIN seq : seq[i] \in S
    THEN seq[CHOOSE i \in DOMAIN seq :
                 seq[i] \in S /\ \A j \in DOMAIN seq : seq[j] \in S => i <= j]
    ELSE null_index

\* C24: find returns the first position, in traversal order from first(hash),
\* whose item satisfies the predicate, and the sentinel when no position of
\* that chain does; the predicate is evaluated on positions of that chain only.
C24_FindReturnsFirstMatch ==
    \A o \in ObjIds :
        (obj[o].alive /\ status = "ok")
        => \A key \in Keys, matching \in SUBSET Positions :
              LET t == Traverse(heap, obj[o], key)
                  f == find(heap, obj[o], key, matching)
              IN  /\ f.end \in {"found", "null"}
                  /\ f.value = FirstIn(t.seq, matching)
                  /\ Range(f.probed) \subseteq Range(t.seq)

\* C25: once every (hash, position) pair that was inserted has been erased,
\* in whatever order, every bucket is empty: first(h) is the sentinel for
\* every hash h.
C25_ErasingAllEmptiesBuckets ==
    \A o \in ObjIds :
        (Plain(o) /\ status = "ok" /\ \A p \in Positions : hist[o].at[p] = NoBucket)
        => \A key \in Keys :
              /\ first(heap, obj[o], key) = null_index
              /\ Traverse(heap, obj[o], key).seq = <<>>

\* the last pair erased from a structure whose chain had grown to hold every
\* position
C25_Witness ==
    /\ Plain(1)
    /\ op.name = "erase"
    /\ obj[1].m_hash_buckets_size = 2
    /\ obj[1].m_index_chain_size >= MaxPos + 1
    /\ \A p \in Positions : hist[1].at[p] = NoBucket

\* seq up to and including the first occurrence of p
UpTo(seq, p) ==
    SubSeq(seq, 1, CHOOSE i \in DOMAIN seq : seq[i] = p /\ \A j \in 1..(i - 1) : seq[j] # p)

\* position index, inserted under bucket hist[o].at[index] and not erased, is
\* inserted again under a hash of another bucket
SecondInsert(o, key, index) ==
    /\ Plain(o)
    /\ hist[o].at[index] # NoBucket
    /\ hist[o].at[index] # BucketOf(obj[o], key)
    /\ Insert(o, key, index)

\* C26 as stated: after the second insert the position is reached by the
\* traversal from the second hash and not by the traversal from the first.
C26_OnlySecondMembership ==
    [][\A o \in ObjIds, key \in Keys, index \in Positions :
          SecondInsert(o, key, index)
          => /\ index \in Range(Traverse(heap', obj'[o], key).seq)
             /\ index \notin Range(Traverse(heap', obj'[o], hist[o].at[index]).seq)]_vars

\* C26, amended: after the second insert the position is reached from both
\* hashes.  The second bucket traverses the position and then what it held
\* before; the first bucket traverses what it held up to and including the
\* position and then what the second bucket held before, so the positions
\* that followed it in the first bucket are no longer reached from there.
C26_BothBucketsReachPosition ==
    [][\A o \in ObjIds, key \in Keys, index \in Positions :
          SecondInsert(o, key, index)
          => LET b1 == hist[o].at[index]
                 old1 == Traverse(heap, obj[o], b1).seq
                 old2 == Traverse(heap, obj[o], key).seq
                 new1 == Traverse(heap', obj'[o], b1)
                 new2 == Traverse(heap', obj'[o], key)
             IN  /\ status' = "ok"
                 /\ new2.end = "null"
                 /\ new2.seq = <<index>> \o old2
                 /\ new1.end = "null"
                 /\ new1.seq = UpTo(old1, index) \o old2]_vars

\* position 0 inserted again under the other bucket: both buckets traverse
\* 0 and then 2, and position 1, which followed 0, is out of reach
C26_Witness ==
    /\ op.name = "insert"
    /\ hist[1].mode = "misused"
    /\ obj[1].m_hash_buckets_size = 2
    /\ Traverse(heap, obj[1], 0).seq = <<0, 2>>
    /\ Traverse(heap, obj[1], 1).seq = <<0, 2>>

\* C27: from every reachable state, also after the same (hash, position) pair
\* was inserted twice, the traversal by first/next, find, erase and
\* compute_distribution_percentage reach the sentinel and return.
C27_OperationsComplete ==
    \A o \in ObjIds :
        (obj[o].alive /\ status = "ok")
        => /\ \A key \in Keys :
                 /\ Traverse(heap, obj[o], key).end # "loop"
                 /\ find(heap, obj[o], key, {}).end # "loop"
                 /\ \A index \in Positions :
                       index < obj[o].m_index_chain_size
                       => erase(WorldOf(o), key, index).st # "hang"
           /\ compute_distribution_percentage(heap, obj[o]).end # "hang"

\* C28: insert_at_index(hash, p) does not treat the sentinel as a position.
\* A bucket other than the one of hash that was empty before the call is empty
\* after it, and a position that ended its chain before the call (its chain
\* slot held the sentinel) still ends it afterwards, at its shifted place.
C28_InsertAtIndexKeepsSentinels ==
    [][\A o \in ObjIds, key \in Keys, index \in Positions :
          (Plain(o) /\ is_allocated(obj[o]) /\ InsertAtIndex(o, key, index))
          => LET B == heap[obj[o].m_hash_buckets]
                 C == heap[obj[o].m_index_chain]
                 Bn == heap'[obj'[o].m_hash_buckets]
                 Cn == heap'[obj'[o].m_index_chain]
             IN  /\ status' = "ok"
                 /\ \A k \in DOMAIN B :
                       (k # BucketOf(obj[o], key) /\ B[k] = null_index)
                       => Bn[k] = null_index
                 /\ \A q \in Positions :
                       (hist[o].at[q] # NoBucket /\ C[q] = null_index)
                       => Cn[IF q < index THEN q ELSE q + 1] = null_index]_vars

\* C29: erase_and_remove_index(hash, p) of an inserted pair does not treat
\* the sentinel as a position: the gap-closing loop stays below the chain
\* capacity (the call ends normally), no bucket that was empty gets a head,
\* and no bucket head or chain slot holds a decremented sentinel afterwards.
C29_EraseAndRemoveKeepsSentinels ==
    [][\A o \in ObjIds, key \in Keys, index \in Positions, junk \in {0, null_index} :
          (/\ Plain(o)
           /\ is_allocated(obj[o])
           /\ hist[o].at[index] = BucketOf(obj[o], key)
           /\ EraseAndRemoveIndex(o, key, index, junk))
          => LET B == heap[obj[o].m_hash_buckets]
                 Bn == heap'[obj'[o].m_hash_buckets]
             IN  /\ status' = "ok"
                 /\ \A k \in DOMAIN B : B[k] = null_index => Bn[k] = null_index
                 /\ WrapIndex(null_index - 1) \notin Stored(heap', obj'[o])]_vars

\* the positions the caller has inserted and not erased
Inserted(o) == {p \in Positions : hist[o].at[p] # NoBucket}

\* C30: under correct usage (a position inserted at most once between erases,
\* erase called with the hash of the insert), after any sequence of insert,
\* erase, insert_at_index, erase_and_remove_index, clear and
\* resize_index_chain every bucket's chain ends at the sentinel, no two
\* buckets share a position, and the buckets together visit exactly the
\* inserted positions.
C30_ChainsPartitionInserted ==
    \A o \in ObjIds :
        (obj[o].alive /\ hist[o].mode # "misused")
        => /\ status = "ok"
           /\ LET t == Buckets(heap, obj[o])
              IN  /\ \A b \in DOMAIN t : t[b].end = "null"
                  /\ \A b, c \in DOMAIN t :
                        b # c => Range(t[b].seq) \cap Range(t[c].seq) = {}
                  /\ UNION {Range(t[b].seq) : b \in DOMAIN t} = Inserted(o)

\* C31: erase(hash, position) of a present pair removes only that position.
\* Every other bucket's traversal is unchanged, the bucket of hash traverses
\* what it did before without position, in the same order, and the chain slot
\* of position holds the sentinel.
C31_EraseRemovesOnlyPosition ==
    [][\A o \in ObjIds, key \in Keys, index \in Positions :
          (/\ Plain(o)
           /\ hist[o].at[index] = BucketOf(obj[o], key)
           /\ Erase(o, key, index))
          => /\ status' = "ok"
             /\ \A b \in 0..(obj[o].m_hash_buckets_size - 1) :
                   /\ Traverse(heap', obj'[o], b).end = "null"
                   /\ Traverse(heap', obj'[o], b).seq
                        = IF b = BucketOf(obj[o], key)
                          THEN Without(Traverse(heap, obj[o], b).seq, index)
                          ELSE Traverse(heap, obj[o], b).seq
             /\ heap'[obj'[o].m_index_chain][index] = null_index
             /\ \A i \in DOMAIN heap[obj[o].m_hash_buckets] :
                   i # BucketOf(obj[o], key)
                   => heap'[obj'[o].m_hash_buckets][i] = heap[obj[o].m_hash_buckets][i]]_vars

\* position 1 erased from bucket 0 of four, which keeps 2 and 0 in their
\* order; the chain slot left behind holds the sentinel
C31_Witness ==
    /\ Plain(1)
    /\ op.name = "erase"
    /\ obj[1].m_hash_buckets_size = 4
    /\ hist[1].at = [p \in Positions |-> IF p = 1 THEN NoBucket ELSE 0]
    /\ Traverse(heap, obj[1], 4).seq = <<2, 0>>
    /\ heap[obj[1].m_index_chain][1] = null_index

\* C32: every read or write of the bucket buffer or the chain buffer uses an
\* index below the buffer's length; while unallocated only slot 0 of the
\* sentinel array is accessed, also by operator== between two unallocated
\* structures and by first/next.
C32_AccessesWithinBuffers ==
    /\ status # "ub"
    /\ \A o \in ObjIds :
          (obj[o].alive /\ status = "ok")
          => /\ \A key \in Keys :
                   BitAnd(BitAnd(key, obj[o].m_hash_mask), obj[o].m_lookup_mask)
                       \in DOMAIN Mem(heap, obj[o].m_hash_buckets)
             /\ \A index \in Positions :
                   index < obj[o].m_index_chain_size
                   => /\ BitAnd(index, obj[o].m_lookup_mask)
                             \in DOMAIN Mem(heap, obj[o].m_index_chain)
                      /\ \A key \in Keys : erase(WorldOf(o), key, index).st # "ub"
    /\ \A a, b \in ObjIds :
          (obj[a].alive /\ obj[b].alive /\ status = "ok")
          => "fault" \notin EqOutcomes(heap, obj[a], obj[b], a = b)

\* C33: in every state in which no operation has gone wrong, each live
\* structure has lookup mask 0 exactly when is_allocated() is false and all-one
\* bits exactly when it is true, and its bucket and chain buffers are either
\* both the shared sentinel array or both allocations of their own; insert,
\* clear_and_free, clear_and_resize, copy, move and swap keep it so.
C33_LookupMaskMatchesAllocation ==
    \A o \in ObjIds :
        (obj[o].alive /\ status = "ok")
        => /\ (obj[o].m_lookup_mask = 0) <=> ~is_allocated(obj[o])
           /\ (obj[o].m_lookup_mask = AllOnes) <=> is_allocated(obj[o])
           /\ \/ /\ obj[o].m_hash_buckets = m_invalid_index_dummy
                 /\ obj[o].m_index_chain = m_invalid_index_dummy
              \/ /\ obj[o].m_hash_buckets \in allocated
                 /\ obj[o].m_index_chain \in allocated
                 /\ obj[o].m_hash_buckets # obj[o].m_index_chain
                 /\ \A q \in ObjIds \ {o} :
                       obj[q].alive
                       => {obj[q].m_hash_buckets, obj[q].m_index_chain}
                            \cap {obj[o].m_hash_buckets, obj[o].m_index_chain} = {}

\* a swap has just exchanged an allocated structure holding a pair with an
\* unallocated one
C33_Witness ==
    /\ status = "ok"
    /\ op.name = "swap"
    /\ obj[1].alive /\ obj[2].alive
    /\ is_allocated(obj[1]) /\ obj[1].m_lookup_mask = AllOnes
    /\ first(heap, obj[1], 1) = 1
    /\ ~is_allocated(obj[2]) /\ obj[2].m_lookup_mask = 0

\* C34: the first insert(hash, p) on an unallocated structure whose recorded
\* bucket count is b and recorded chain capacity is c allocates exactly b
\* buckets and a chain of max(c, p + 1) slots, not rounded to the granularity;
\* afterwards the bucket of the hash holds p and every other bucket and every
\* chain slot holds the sentinel, so that first(hash) = p, next(p) = sentinel
\* and is_allocated() is true.
C34_FirstInsertAllocates ==
    [][\A key \in Keys, index \in Positions :
          (/\ ~is_allocated(obj[1])
           /\ Insert(1, key, index))
          => LET b == obj[1].m_hash_buckets_size
                 c == obj[1].m_index_chain_size
                 n == SetMax({c, index + 1})
                 k == BitAnd(key, b - 1)
             IN  /\ status' = "ok"
                 /\ is_allocated(obj'[1])
                 /\ obj'[1].m_hash_buckets # obj'[1].m_index_chain
                 /\ {obj'[1].m_hash_buckets, obj'[1].m_index_chain} \subseteq allocated'
                 /\ obj'[1].m_hash_buckets_size = b
                 /\ obj'[1].m_index_chain_size = n
                 /\ heap'[obj'[1].m_hash_buckets]
                       = [i \in 0..(b - 1) |-> IF i = k THEN index ELSE null_index]
                 /\ heap'[obj'[1].m_index_chain] = [i \in 0..(n - 1) |-> null_index]
                 /\ first(heap', obj'[1], key) = index
                 /\ next(heap', obj'[1], index) = null_index]_vars

\* position 1 inserted under hash 1 into a structure of two buckets whose
\* recorded capacity was at most 2 and whose granularity is 3: the chain has
\* two slots
C34_Witness ==
    /\ status = "ok"
    /\ op.name = "insert"
    /\ is_allocated(obj[1])
    /\ obj[1].m_granularity = 3
    /\ obj[1].m_hash_buckets_size = 2
    /\ obj[1].m_index_chain_size = 2
    /\ heap[obj[1].m_hash_buckets] = [i \in 0..1 |-> IF i = 1 THEN 1 ELSE null_index]
    /\ heap[obj[1].m_index_chain] = [i \in 0..1 |-> null_index]

====
